---------------------------- MODULE Spec2Model ----------------------------
(***************************************************************************)
(* A model of sp/SignalProcessor.py (class DESTester): the register        *)
(* encoding of the device configuration, the capture sequence and the      *)
(* decoder of the returned byte buffer.                                    *)
(*                                                                         *)
(* The front-panel transport (module ok) is the environment.  Its wire-ins *)
(* are modelled as 16-bit registers written under a mask and latched by    *)
(* the device on UpdateWireIns.  TLC's integers are 32-bit, so the 64-bit  *)
(* header word is kept as four 16-bit limbs and a 32-bit word as two.      *)
(***************************************************************************)
EXTENDS Integers, Sequences, FiniteSets, TLC

VARIABLES
    wireIn,               \* host-side wire-in values, by endpoint address
    devWire,              \* wire-in values latched by the device
    calls,                \* transport calls made by the operation in progress / last run
    lastOp,               \* the last configuration call: its name, arguments, exception
    nOps,                 \* number of configuration calls made so far
    header,               \* argument of the checkHeader call
    headerOk,             \* what checkHeader returned (NotCalled before the call)
    num_channels,         \* self.num_channels
    numDataStreams,       \* argument of readDataBlock
    samplesPerDataBlock,  \* argument of readDataBlock
    buffer,               \* argument of readDataBlock: the bytes read from the pipe
    ulongSize,            \* item size of numpy's dtype "<L" on the platform
    decoded,              \* outcome of readDataBlock (pending before the call)
    pc,                   \* where collectDataFromPipeOut stands
    length,               \* argument of collectDataFromPipeOut
    numStreams,           \* argument of collectDataFromPipeOut
    capBuffer,            \* its local buffer: the size allocated, whether the pipe filled it
    wireOut,              \* host-side value of wire-out 0x22 (as of the last refresh)
    devRunning,           \* the device is acquiring
    transportFailed,      \* a transport call of the capture returned an error code
    returned,             \* what collectDataFromPipeOut handed to its caller
    isRunning,            \* what isRunning() last returned to the capture (-1: not yet called)
    fifoMsb,              \* the device's wire-out 0x21
    fifoLsb,              \* the device's wire-out 0x20
    numWords              \* what numWordsInFifo returned (-1 before the call)

vars == <<wireIn, devWire, calls, lastOp, nOps, header, headerOk, num_channels,
          numDataStreams, samplesPerDataBlock, buffer, ulongSize, decoded,
          pc, length, numStreams, capBuffer, wireOut, devRunning, transportFailed,
          returned, isRunning, fifoMsb, fifoLsb, numWords>>

cfgVars == <<wireIn, devWire, calls, lastOp, nOps>>
hdrVars == <<header, headerOk>>
decVars == <<num_channels, numDataStreams, samplesPerDataBlock, buffer, ulongSize, decoded>>
capVars == <<pc, length, numStreams, capBuffer, wireOut, devRunning, transportFailed,
             returned, isRunning>>
fifoVars == <<fifoMsb, fifoLsb, numWords>>

-----------------------------------------------------------------------------
(* Bounds of the model.                                                    *)

\* configuration calls made in one run
MaxOps == 3
\* largest stream index passed to enableDataStream / setDataSource
\* (the eight streams are 0..7; init_experiment also passes num_data_streams itself)
MaxStreamIndex == 8

-----------------------------------------------------------------------------
(* Integer helpers: Python's &, |, << on non-negative integers.            *)

RECURSIVE BitAnd(_, _)
BitAnd(a, b) ==
    IF a = 0 \/ b = 0 THEN 0
    ELSE (a % 2) * (b % 2) + 2 * BitAnd(a \div 2, b \div 2)

BitOr(a, b) == a + b - BitAnd(a, b)

RECURSIVE Pow2(_)
Pow2(n) == IF n = 0 THEN 1 ELSE 2 * Pow2(n - 1)

Shl(v, n) == v * Pow2(n)

Shr(v, n) == v \div Pow2(n)

-----------------------------------------------------------------------------
(* The transport: okCFrontPanel's wire-ins and trigger-ins.                *)

\* all ones of a 16-bit wire; also the default mask of SetWireInValue
WireMask == 65535

WireInAddrs == 0 .. 31

ZeroWires == [ep \in WireInAddrs |-> 0]

Call(c, ep, val, mask) == [call |-> c, ep |-> ep, val |-> val, mask |-> mask]

\* the transport as the handlers see it
Xem == [wireIn |-> wireIn, devWire |-> devWire, calls |-> <<>>]

\* xem.SetWireInValue(ep, val, mask): only the bits of mask are replaced
SetWireInValue(x, ep, val, mask) ==
    LET m   == BitAnd(mask, WireMask)
        old == x.wireIn[ep]
        new == BitOr(BitAnd(old, WireMask - m), BitAnd(val, m))
    IN  [x EXCEPT !.wireIn[ep] = new,
                  !.calls = Append(@, Call("SetWireInValue", ep, val, mask))]

\* xem.UpdateWireIns(): the device latches every wire-in
UpdateWireIns(x) ==
    [x EXCEPT !.devWire = x.wireIn,
              !.calls = Append(@, Call("UpdateWireIns", 0, 0, 0))]

\* xem.ActivateTriggerIn(ep, bit)
ActivateTriggerIn(x, ep, bit) ==
    [x EXCEPT !.calls = Append(@, Call("ActivateTriggerIn", ep, bit, 0))]

\* what a handler hands back: the transport after it, and the exception it raised
Returns(x) == [x |-> x, exc |-> "none"]
Raises(x, e) == [x |-> x, exc |-> e]

-----------------------------------------------------------------------------
(* DeviceConfigurator: stream enable and routing.                          *)

enableDataStream(x, streamIndex) ==
    Returns(UpdateWireIns(
        SetWireInValue(x, 20, Shl(1, streamIndex), Shl(1, streamIndex))))

\* sourceId written over the whole wire instead of under the 4-bit mask
setDataSourceUnmasked(x, stream, boardDataSource) ==
    LET high_four == (stream * 4) \div 16
        bitshift  == (stream * 4) - (high_four * 16)
        wire_in   == 18 + high_four
    IN  Returns(UpdateWireIns(
            SetWireInValue(x, wire_in, Shl(boardDataSource, bitshift), WireMask)))

setDataSource(x, stream, boardDataSource) ==
    LET high_four == (stream * 4) \div 16
        bitshift  == (stream * 4) - (high_four * 16)
        wire_in   == 18 + high_four
    IN  Returns(UpdateWireIns(
            SetWireInValue(x, wire_in, Shl(boardDataSource, bitshift),
                           Shl(15, bitshift))))

-----------------------------------------------------------------------------
(* Configuration calls as actions.                                         *)

StreamIndices == 0 .. MaxStreamIndex

\* data sources 0:A1 .. 7:D2, and the 8 that init_experiment passes for stream 8
SourceIds == {0, 3, 7, 8}

NoOp == [op |-> "none", args |-> <<>>, exc |-> "none"]

\* one configuration call made and finished: r is what the handler handed back
Did(op, args, r) ==
    /\ nOps < MaxOps
    /\ nOps' = nOps + 1
    /\ wireIn' = r.x.wireIn
    /\ devWire' = r.x.devWire
    /\ calls' = r.x.calls
    /\ lastOp' = [op |-> op, args |-> args, exc |-> r.exc]

EnableDataStreamCall ==
    /\ \E s \in StreamIndices : Did("enableDataStream", <<s>>, enableDataStream(Xem, s))
    /\ UNCHANGED <<hdrVars, decVars, capVars, fifoVars>>

SetDataSourceCall ==
    /\ \E s \in StreamIndices, d \in SourceIds :
           Did("setDataSource", <<s, d>>, setDataSource(Xem, s, d))
    /\ UNCHANGED <<hdrVars, decVars, capVars, fifoVars>>

\* the device as okCFrontPanel() opens it: every wire-in zero, nothing called
CfgInit ==
    /\ wireIn = ZeroWires
    /\ devWire = ZeroWires
    /\ calls = <<>>
    /\ lastOp = NoOp
    /\ nOps = 0

\* no call made yet
NotCalled == [exc |-> "pending", arr |-> <<>>]

HdrIdle == header = <<>> /\ headerOk = NotCalled

DecIdle ==
    /\ num_channels = 0
    /\ numDataStreams = 0
    /\ samplesPerDataBlock = 0
    /\ buffer = <<>>
    /\ ulongSize = 4
    /\ decoded = [outcome |-> "pending"]

\* no capture under way
CapIdle ==
    /\ pc = "idle"
    /\ length = 0
    /\ numStreams = 0
    /\ capBuffer = [size |-> 0, filled |-> FALSE]
    /\ wireOut = 0
    /\ devRunning = FALSE
    /\ transportFailed = FALSE
    /\ returned = "nothing"
    /\ isRunning = -1

\* numWordsInFifo not called, the FIFO empty
FifoIdle ==
    /\ fifoMsb = 0
    /\ fifoLsb = 0
    /\ numWords = -1

InitStreams == CfgInit /\ HdrIdle /\ DecIdle /\ CapIdle /\ FifoIdle

NextStreams == EnableDataStreamCall \/ SetDataSourceCall

SpecStreams == InitStreams /\ [][NextStreams]_vars


-----------------------------------------------------------------------------
(* DeviceConfigurator: sample rate.                                        *)

\* the M, D pairs of setSampleFrequency's dictionary, by its string keys
sampleFrequencies ==
    [r \in {"1000", "1250", "1500", "2000", "2500", "3000", "3330", "4000", "5000",
            "6250", "8000", "10000", "12500", "15000", "20000", "25000", "30000"} |->
        CASE r = "1000"  -> <<7, 125>>
          [] r = "1250"  -> <<7, 100>>
          [] r = "1500"  -> <<21, 250>>
          [] r = "2000"  -> <<14, 125>>
          [] r = "2500"  -> <<25, 250>>
          [] r = "3000"  -> <<21, 125>>
          [] r = "3330"  -> <<14, 75>>
          [] r = "4000"  -> <<28, 125>>
          [] r = "5000"  -> <<7, 25>>
          [] r = "6250"  -> <<7, 20>>
          [] r = "8000"  -> <<112, 250>>
          [] r = "10000" -> <<14, 25>>
          [] r = "12500" -> <<7, 10>>
          [] r = "15000" -> <<21, 25>>
          [] r = "20000" -> <<28, 25>>
          [] r = "25000" -> <<35, 25>>
          [] r = "30000" -> <<42, 25>>]

\* the M, D table of setSampleFrequency's docstring, rows in kS/s keyed as above
DocumentedMD ==
    [r \in DOMAIN sampleFrequencies |->
        CASE r = "1000"  -> <<7, 125>>
          [] r = "1250"  -> <<7, 100>>
          [] r = "1500"  -> <<21, 250>>
          [] r = "2000"  -> <<14, 125>>
          [] r = "2500"  -> <<35, 250>>
          [] r = "3000"  -> <<21, 125>>
          [] r = "3330"  -> <<14, 75>>
          [] r = "4000"  -> <<28, 125>>
          [] r = "5000"  -> <<7, 25>>
          [] r = "6250"  -> <<7, 20>>
          [] r = "8000"  -> <<112, 250>>
          [] r = "10000" -> <<14, 25>>
          [] r = "12500" -> <<7, 10>>
          [] r = "15000" -> <<21, 25>>
          [] r = "20000" -> <<28, 25>>
          [] r = "25000" -> <<35, 25>>
          [] r = "30000" -> <<42, 25>>]

\* a lookup that falls back to the 30 kS/s pair instead of raising KeyError
setSampleFrequencyDefaulting(x, rate) ==
    LET md == IF rate \in DOMAIN sampleFrequencies
              THEN sampleFrequencies[rate] ELSE <<42, 25>>
    IN  Returns(ActivateTriggerIn(
            UpdateWireIns(SetWireInValue(x, 3, 256 * md[1] + md[2], WireMask)),
            64, 0))

\* sampleFrequencies[rate] is evaluated first: an unknown key raises KeyError
\* before SetWireInValue is called
setSampleFrequency(x, rate) ==
    IF rate \notin DOMAIN sampleFrequencies
    THEN Raises(x, "KeyError")
    ELSE Returns(ActivateTriggerIn(
             UpdateWireIns(
                 SetWireInValue(x, 3,
                     256 * sampleFrequencies[rate][1] + sampleFrequencies[rate][2],
                     WireMask)),
             64, 0))

\* the 17 keys, and rates the dictionary does not hold
RateInputs == DOMAIN sampleFrequencies \cup {"0", "2400", "30001", "40000"}

SetSampleFrequencyCall ==
    /\ \E rate \in RateInputs :
           Did("setSampleFrequency", <<rate>>, setSampleFrequency(Xem, rate))
    /\ UNCHANGED <<hdrVars, decVars, capVars, fifoVars>>

InitRate == CfgInit /\ HdrIdle /\ DecIdle /\ CapIdle /\ FifoIdle

NextRate == SetSampleFrequencyCall

SpecRate == InitRate /\ [][NextRate]_vars

-----------------------------------------------------------------------------
(* Properties of the stream routing.                                       *)

\* the 4-bit routing field of a stream: register 0x12 + (stream*4)/16,
\* bit offset (stream*4) mod 16
RoutingField(w, stream) ==
    (w[18 + (stream * 4) \div 16] \div Pow2((stream * 4) % 16)) % 16

C5_Written ==
    (lastOp.op = "setDataSource" /\ lastOp.args[1] \in 0 .. 7) =>
        /\ RoutingField(wireIn, lastOp.args[1]) = lastOp.args[2]
        /\ RoutingField(devWire, lastOp.args[1]) = lastOp.args[2]

C5_Frame ==
    \A t \in 0 .. 7 :
        RoutingField(wireIn', t) # RoutingField(wireIn, t) =>
            lastOp'.op = "setDataSource" /\ lastOp'.args[1] = t

\* C5: after a setDataSource(stream, sourceId) call with stream in 0..7 the
\* stream's 4-bit routing field holds sourceId, and no call changes the routing
\* field of a stream in 0..7 other than a setDataSource call naming that stream;
\* so each field holds the sourceId most recently written for its stream.
C5_RoutingFields == [](C5_Written) /\ [][C5_Frame]_vars

\* stream 5 was routed, then stream 1: stream 5's field still holds its source
C5_Witness ==
    /\ lastOp.op = "setDataSource"
    /\ lastOp.args = <<1, 3>>
    /\ RoutingField(wireIn, 5) = 7
    /\ RoutingField(wireIn, 1) = 3

\* C8: a call of enableDataStream or setDataSource with a stream index outside
\* 0..7 is rejected with an error before any register write.
C8_OutOfRangeRejected ==
    (lastOp.op \in {"enableDataStream", "setDataSource"} /\ lastOp.args[1] \notin 0 .. 7) =>
        (lastOp.exc # "none" /\ calls = <<>>)

-----------------------------------------------------------------------------
(* Properties of the sample rate.                                          *)

\* C4: for each of the 17 supported rates setSampleFrequency writes 256*M + D of
\* the documented (M, D) pair to register 0x03, commits, and then pulses
\* trigger 0x40 bit 0.
C4_DocumentedPLLWord ==
    (lastOp.op = "setSampleFrequency" /\ lastOp.args[1] \in DOMAIN DocumentedMD) =>
        LET md   == DocumentedMD[lastOp.args[1]]
            word == 256 * md[1] + md[2]
        IN  /\ lastOp.exc = "none"
            /\ wireIn[3] = word
            /\ devWire[3] = word
            /\ calls = << Call("SetWireInValue", 3, word, WireMask),
                          Call("UpdateWireIns", 0, 0, 0),
                          Call("ActivateTriggerIn", 64, 0, 0) >>

\* C9: a setSampleFrequency call with a rate outside the 17 supported ones raises
\* an error, makes no transport call (no write, no commit, no trigger) and
\* leaves the host's and the device's wire values as they were.
C9_UnsupportedRateNoWrite ==
    [][(nOps' # nOps /\ lastOp'.op = "setSampleFrequency"
          /\ lastOp'.args[1] \notin DOMAIN sampleFrequencies) =>
            /\ lastOp'.exc = "KeyError"
            /\ calls' = <<>>
            /\ wireIn' = wireIn
            /\ devWire' = devWire]_vars

\* an unsupported rate was refused after a supported one had been set
C9_Witness ==
    /\ lastOp.op = "setSampleFrequency"
    /\ lastOp.args[1] = "2400"
    /\ lastOp.exc = "KeyError"
    /\ devWire[3] = 256 * 42 + 25

-----------------------------------------------------------------------------
(* FrameDecoder: numpy.frombuffer and the header check.                    *)

Min(a, b) == IF a < b THEN a ELSE b

\* Python's buffer[a:b] on a byte sequence (clipped to the sequence's end)
Slice(buf, a, b) == SubSeq(buf, a + 1, Min(b, Len(buf)))

\* one little-endian item of 2, 4 or 8 bytes as its 16-bit limbs, lowest first
LittleEndian(bytes) ==
    [i \in 1 .. (Len(bytes) \div 2) |-> bytes[2 * i - 1] + 256 * bytes[2 * i]]

\* the same bytes read with the highest byte first (dtype ">Q")
BigEndian(bytes) ==
    [i \in 1 .. (Len(bytes) \div 2) |->
        bytes[Len(bytes) - 2 * i + 2] + 256 * bytes[Len(bytes) - 2 * i + 1]]

\* numpy.frombuffer(bytes, dtype) for a little-endian dtype of itemsize bytes:
\* ValueError unless the buffer is a whole number of items, else the array
frombuffer(bytes, itemsize) ==
    IF Len(bytes) % itemsize # 0
    THEN [exc |-> "ValueError", arr |-> <<>>]
    ELSE [exc |-> "none",
          arr |-> [i \in 1 .. (Len(bytes) \div itemsize) |->
                     LittleEndian(SubSeq(bytes, (i - 1) * itemsize + 1, i * itemsize))]]

\* 0xc691199927021942 as 16-bit limbs, lowest first
MagicWord == <<6466, 9986, 6553, 50833>>

\* the header compared after a big-endian read
checkHeaderBigEndian(hdr) ==
    IF Len(hdr) % 8 # 0
    THEN [exc |-> "ValueError", arr |-> <<>>]
    ELSE [exc |-> "none",
          arr |-> [i \in 1 .. (Len(hdr) \div 8) |->
                     BigEndian(SubSeq(hdr, (i - 1) * 8 + 1, i * 8)) = MagicWord]]

\* checkHeader: the array numpy's == gives, one boolean per 64-bit item
checkHeader(hdr) ==
    LET parsedHeader == frombuffer(hdr, 8)
    IN  [exc |-> parsedHeader.exc,
         arr |-> [i \in DOMAIN parsedHeader.arr |-> parsedHeader.arr[i] = MagicWord]]

\* the magic header as the device sends it: 42 19 02 27 99 19 91 c6
MagicBytes == <<66, 25, 2, 39, 153, 25, 145, 198>>

\* a byte with bit b (0..7) inverted
FlipBitOfByte(v, b) ==
    IF (v \div Pow2(b)) % 2 = 1 THEN v - Pow2(b) ELSE v + Pow2(b)

\* the 8 bytes with bit b (0..63) of their little-endian word inverted
FlipBit(bytes, b) ==
    [bytes EXCEPT ![(b \div 8) + 1] = FlipBitOfByte(@, b % 8)]

Reverse(seq) == [i \in 1 .. Len(seq) |-> seq[Len(seq) - i + 1]]

\* headers handed to checkHeader: the magic word, its 64 single-bit flips, the
\* magic word byte-reversed, with its two 32-bit halves swapped, and all zero
HeaderInputs ==
    {MagicBytes, Reverse(MagicBytes), <<0, 0, 0, 0, 0, 0, 0, 0>>,
     SubSeq(MagicBytes, 5, 8) \o SubSeq(MagicBytes, 1, 4)}
        \cup {FlipBit(MagicBytes, b) : b \in 0 .. 63}

CheckHeaderCall ==
    /\ headerOk = NotCalled
    /\ headerOk' = checkHeader(header)
    /\ UNCHANGED <<header, cfgVars, decVars, capVars, fifoVars>>

InitHeader ==
    /\ CfgInit
    /\ DecIdle
    /\ CapIdle
    /\ FifoIdle
    /\ header \in HeaderInputs
    /\ headerOk = NotCalled

NextHeader == CheckHeaderCall

SpecHeader == InitHeader /\ [][NextHeader]_vars

\* C7: for an 8-byte input checkHeader gives true exactly when the bytes are the
\* little-endian bytes of 0xC691199927021942; every single-bit flip gives false.
C7_HeaderExact ==
    headerOk # NotCalled =>
        /\ headerOk.exc = "none"
        /\ headerOk.arr \in {<<TRUE>>, <<FALSE>>}
        /\ (headerOk.arr = <<TRUE>>) <=> (header = MagicBytes)

\* checkHeader has refused a header that differs from the magic word in one bit
C7_Witness ==
    /\ headerOk = [exc |-> "none", arr |-> <<FALSE>>]
    /\ \E b \in 0 .. 63 : header = FlipBit(MagicBytes, b)

-----------------------------------------------------------------------------
(* FrameDecoder: readDataBlock.                                            *)

\* samples a decoded buffer holds at most
MaxSamples == 5
\* a capture longer than the result storage of readDataBlock
LongCapture == 101

\* size of each axis of auxiliary_data and board_adc_data: numpy.zeros((100, ...))
ResultStorage == 100

\* bytes of one sample: dataBlockSize(numDataStreams)
dataBlockSize(nds) == 2 * (4 + 2 + nds * 36 + 8 + 2)

\* the sum of the "index +=" statements of one pass of readDataBlock's loop:
\* header, timestamp, 3 auxiliary words per stream, the amplifier words,
\* one filler word per stream, 8 ADC words, TTL in, TTL out
SampleAdvance(nds, nc) ==
    8 + 4 + (3 * nds) * 2 + 2 * nc * nds + 2 * nds + 8 * 2 + 2 + 2

\* a numpy array of zeros with the elements stored so far
Store(array, idx, v) == (idx :> v) @@ array

\* what an exception's message holds: the header bytes formatted into it, if any
NoMessage == [header |-> <<>>]

\* the locals of readDataBlock before its loop
DecoderStart ==
    [exc |-> "none", message |-> NoMessage, index |-> 0, sample |-> 0,
     time_stamp |-> <<>>, auxiliary_data |-> <<>>, amplifier_data |-> <<>>,
     board_adc_data |-> <<>>, ttl_in |-> <<>>, ttl_out |-> <<>>]

Raise(d, e, msg) == [d EXCEPT !.exc = e, !.message = [header |-> msg]]

\* "if not self.checkHeader(buffer[index:index + 8]): raise SyntaxError(...)";
\* the message holds the eight bytes read.  An empty array is false.
StepHeader(buf, d) ==
    LET hdr == Slice(buf, d.index, d.index + 8)
        ok  == checkHeader(hdr)
    IN  IF ok.exc # "none" THEN Raise(d, ok.exc, <<>>)
        ELSE IF Len(ok.arr) > 1 THEN Raise(d, "ValueError", <<>>)
        ELSE IF Len(ok.arr) = 0 \/ ~ok.arr[1] THEN Raise(d, "SyntaxError", hdr)
        ELSE [d EXCEPT !.index = @ + 8]

\* the timestamp: two bytes handed to frombuffer with dtype "<L", cursor moved by 4
StepTimestamp(buf, d, lsize) ==
    LET r == frombuffer(Slice(buf, d.index, d.index + 2), lsize)
    IN  IF r.exc # "none" THEN Raise(d, r.exc, <<>>)
        ELSE [d EXCEPT !.time_stamp = Append(@, r.arr), !.index = @ + 4]

\* auxiliary_data[stream][channel][sample] = frombuffer(2 bytes, "<H"), for the
\* k-th word on: channel = k div nds (0..2), stream = k mod nds
RECURSIVE StepAux(_, _, _, _)
StepAux(buf, d, nds, k) ==
    IF k >= 3 * nds THEN d
    ELSE LET channel == k \div nds
             stream  == k % nds
             r == frombuffer(Slice(buf, d.index, d.index + 2), 2)
         IN  IF r.exc # "none" THEN Raise(d, r.exc, <<>>)
             ELSE IF stream >= ResultStorage \/ d.sample >= ResultStorage
                  THEN Raise(d, "IndexError", <<>>)
             ELSE IF Len(r.arr) # 1 THEN Raise(d, "ValueError", <<>>)
             ELSE StepAux(buf,
                          [d EXCEPT !.auxiliary_data =
                                        Store(@, <<stream, channel, d.sample>>, r.arr[1][1]),
                                    !.index = @ + 2],
                          nds, k + 1)

\* the amplifier words: frombuffer, reshape(-1, 2), transpose, then
\* amplifier_data[stream][channel][sample] = numpifiedData[stream][channel]
StepAmplifier(buf, d, nds, nc) ==
    LET r    == frombuffer(Slice(buf, d.index, d.index + 2 * nc * nds), 2)
        w    == Len(r.arr)
        cols == w \div 2
        numpifiedData(i, j) == r.arr[2 * j + i + 1][1]
    IN  IF r.exc # "none" THEN Raise(d, r.exc, <<>>)
        ELSE IF w % 2 # 0 THEN Raise(d, "ValueError", <<>>)
        ELSE IF nc > 0 /\ nds > 0 /\ (nds > 2 \/ nc > cols)
             THEN Raise(d, "IndexError", <<>>)
        ELSE [d EXCEPT
                 !.amplifier_data =
                     [idx \in {<<st, ch, d.sample>> : st \in 0 .. nds - 1, ch \in 0 .. nc - 1}
                         |-> numpifiedData(idx[1], idx[2])] @@ @,
                 !.index = @ + 2 * nc * nds]

\* "index += 2 * numDataStreams": the filler word of each stream
StepFiller(d, nds) == [d EXCEPT !.index = @ + 2 * nds]

\* board_adc_data[i][sample] = frombuffer(2 bytes, "<H") for i in 0..7
RECURSIVE StepADC(_, _, _)
StepADC(buf, d, i) ==
    IF i >= 8 THEN d
    ELSE LET r == frombuffer(Slice(buf, d.index, d.index + 2), 2)
         IN  IF r.exc # "none" THEN Raise(d, r.exc, <<>>)
             ELSE IF d.sample >= ResultStorage THEN Raise(d, "IndexError", <<>>)
             ELSE IF Len(r.arr) # 1 THEN Raise(d, "ValueError", <<>>)
             ELSE StepADC(buf,
                          [d EXCEPT !.board_adc_data = Store(@, <<i, d.sample>>, r.arr[1][1]),
                                    !.index = @ + 2],
                          i + 1)

\* ttl_in.append(...), ttl_out.append(...)
StepTTL(buf, d) ==
    LET rin  == frombuffer(Slice(buf, d.index, d.index + 2), 2)
        rout == frombuffer(Slice(buf, d.index + 2, d.index + 4), 2)
    IN  IF rin.exc # "none" THEN Raise(d, rin.exc, <<>>)
        ELSE IF rout.exc # "none" THEN Raise([d EXCEPT !.index = @ + 2], rout.exc, <<>>)
        ELSE [d EXCEPT !.ttl_in = Append(@, rin.arr),
                       !.ttl_out = Append(@, rout.arr),
                       !.index = @ + 4]

\* step(d) unless an exception is already on its way
Unless(d, next) == IF d.exc # "none" THEN d ELSE next

\* one pass of the loop body; an exception ends it where it is raised
DecodeSample(buf, d, nds, nc, lsize) ==
    LET AfterHeader(x)    == Unless(x, StepTimestamp(buf, x, lsize))
        AfterTimestamp(x) == Unless(x, StepAux(buf, x, nds, 0))
        AfterAux(x)       == Unless(x, StepAmplifier(buf, x, nds, nc))
        AfterAmplifier(x) == Unless(x, StepFiller(x, nds))
        AfterFiller(x)    == Unless(x, StepADC(buf, x, 0))
        AfterADC(x)       == Unless(x, StepTTL(buf, x))
    IN  AfterADC(AfterFiller(AfterAmplifier(AfterAux(AfterTimestamp(
            AfterHeader(StepHeader(buf, d)))))))

\* "for sample in xrange(0, samplesPerDataBlock)"
RECURSIVE DecodeLoop(_, _, _, _, _, _)
DecodeLoop(buf, d, n, nds, nc, lsize) ==
    IF d.sample >= n THEN d
    ELSE LET e == DecodeSample(buf, d, nds, nc, lsize)
         IN  IF e.exc # "none" THEN e
             ELSE DecodeLoop(buf, [e EXCEPT !.sample = @ + 1], n, nds, nc, lsize)

\* nothing is handed back when an exception leaves readDataBlock
NoResult ==
    [time_stamp |-> <<>>, auxiliary_data |-> <<>>, amplifier_data |-> <<>>,
     board_adc_data |-> <<>>, ttl_in |-> <<>>, ttl_out |-> <<>>]

\* readDataBlock: the SignalResponse it returns or the exception it raises (with
\* its message); cursor and sample are the loop's index and sample as it ended
readDataBlock(buf, n, nds, nc, lsize) ==
    LET d == DecodeLoop(buf, DecoderStart, n, nds, nc, lsize)
    IN  [outcome |-> IF d.exc = "none" THEN "returned" ELSE d.exc,
         message |-> d.message,
         result  |-> IF d.exc = "none"
                     THEN [time_stamp |-> d.time_stamp,
                           auxiliary_data |-> d.auxiliary_data,
                           amplifier_data |-> d.amplifier_data,
                           board_adc_data |-> d.board_adc_data,
                           ttl_in |-> d.ttl_in, ttl_out |-> d.ttl_out]
                     ELSE NoResult,
         cursor  |-> d.index,
         sample  |-> d.sample]

-----------------------------------------------------------------------------
(* The device's side of the data pipe: the bytes of a capture, built from  *)
(* known values in the block layout dataBlockSize counts (per sample: the  *)
(* 8-byte header, a 4-byte timestamp, then per stream 3 auxiliary words,   *)
(* 32 amplifier words and a filler word, 8 ADC words, TTL in and TTL out). *)

\* amplifier channels of one stream in the device's block
DeviceChannels == 32

\* the known values, all 16-bit; the timestamp as its low and high halves
KnownTimestamp(k) == <<40000 + k, 3 + k>>
KnownAux(k, channel, stream) == 1000 + 100 * k + 10 * channel + stream
KnownAmp(k, stream, channel) == 20000 + 1000 * k + 40 * stream + channel
KnownADC(k, i) == 500 + 10 * k + i
KnownTTLIn(k) == 257 + k
KnownTTLOut(k) == 513 + k

\* a 16-bit word as two little-endian bytes
WordBytes(v) == <<v % 256, v \div 256>>

\* a sequence of words as bytes
WordsBytes(ws) ==
    [i \in 1 .. 2 * Len(ws) |-> WordBytes(ws[(i + 1) \div 2])[2 - (i % 2)]]

\* one sample's block; words of one channel position are consecutive over streams
DeviceBlock(nds, k, hdr) ==
    hdr
    \o WordsBytes(KnownTimestamp(k))
    \o WordsBytes([i \in 1 .. 3 * nds |-> KnownAux(k, (i - 1) \div nds, (i - 1) % nds)])
    \o WordsBytes([i \in 1 .. DeviceChannels * nds |->
                      KnownAmp(k, (i - 1) % nds, (i - 1) \div nds)])
    \o WordsBytes([i \in 1 .. nds |-> 0])
    \o WordsBytes([i \in 1 .. 8 |-> KnownADC(k, i - 1)])
    \o WordBytes(KnownTTLIn(k))
    \o WordBytes(KnownTTLOut(k))

\* a header that lost synchronisation: one bit of the magic word inverted
BadHeader == FlipBit(MagicBytes, 9)

\* the blocks lo .. hi - 1 in a row, the one at index bad (if any) with a wrong
\* header
RECURSIVE DeviceBlocks(_, _, _, _)
DeviceBlocks(nds, lo, hi, bad) ==
    IF hi <= lo THEN <<>>
    ELSE IF hi = lo + 1
         THEN DeviceBlock(nds, lo, IF bad = lo THEN BadHeader ELSE MagicBytes)
    ELSE DeviceBlocks(nds, lo, (lo + hi) \div 2, bad)
         \o DeviceBlocks(nds, (lo + hi) \div 2, hi, bad)

\* n blocks, the one at index bad (if any) with a wrong header
DeviceBuffer(nds, n, bad) == DeviceBlocks(nds, 0, n, bad)

\* the header of block k of a buffer laid out in blocks of dataBlockSize bytes
BlockHeader(buf, nds, k) == Slice(buf, k * dataBlockSize(nds), k * dataBlockSize(nds) + 8)

\* the 16-bit little-endian word at byte offset off
WordAt(buf, off) == buf[off + 1] + 256 * buf[off + 2]

-----------------------------------------------------------------------------
(* Decoding as an action.                                                  *)

\* num_channels of the example settings, and the 32 of dataBlockSize's comment
ChannelCounts == {32, 64}

\* data streams of the board ("one of 8 available USB data streams")
NumStreams == 8

NotDecoded ==
    [outcome |-> "pending", message |-> NoMessage, result |-> NoResult,
     cursor |-> 0, sample |-> 0]

ReadDataBlockCall ==
    /\ decoded = NotDecoded
    /\ decoded' = readDataBlock(buffer, samplesPerDataBlock, numDataStreams,
                                num_channels, ulongSize)
    /\ UNCHANGED <<num_channels, numDataStreams, samplesPerDataBlock, buffer, ulongSize,
                   cfgVars, hdrVars, capVars, fifoVars>>

\* a capture of samplesPerDataBlock blocks as collectDataFromPipeOut sizes it,
\* with every header right or one of the first MaxSamples wrong; "<L" is 4
\* bytes or 8
InitDecode ==
    /\ CfgInit
    /\ HdrIdle
    /\ CapIdle
    /\ FifoIdle
    /\ num_channels \in ChannelCounts
    /\ numDataStreams \in 0 .. NumStreams
    /\ samplesPerDataBlock \in (0 .. MaxSamples) \cup {LongCapture}
    /\ buffer \in {DeviceBuffer(numDataStreams, samplesPerDataBlock, bad) :
                       bad \in -1 .. Min(samplesPerDataBlock, MaxSamples) - 1}
    /\ ulongSize \in {4, 8}
    /\ decoded = NotDecoded

NextDecode == ReadDataBlockCall

SpecDecode == InitDecode /\ [][NextDecode]_vars

-----------------------------------------------------------------------------
(* Properties of the decoder.                                              *)

Decoded == decoded.outcome # "pending"

AllHeadersValid ==
    \A k \in 0 .. samplesPerDataBlock - 1 :
        BlockHeader(buffer, numDataStreams, k) = MagicBytes

\* the first block whose header is not the magic word is block k
FirstBadHeader(k) ==
    /\ k \in 0 .. samplesPerDataBlock - 1
    /\ BlockHeader(buffer, numDataStreams, k) # MagicBytes
    /\ \A j \in 0 .. k - 1 : BlockHeader(buffer, numDataStreams, j) = MagicBytes

\* C1: for every numDataStreams and configured num_channels the bytes the cursor
\* advances for one sample equal dataBlockSize(numDataStreams), and a decode
\* of k well-formed blocks ends with the cursor at k * dataBlockSize(numDataStreams).
C1_CursorAdvance ==
    /\ (Decoded /\ samplesPerDataBlock >= 1) =>
           SampleAdvance(numDataStreams, num_channels) = dataBlockSize(numDataStreams)
    /\ (Decoded /\ AllHeadersValid) =>
           /\ decoded.outcome = "returned"
           /\ decoded.cursor = samplesPerDataBlock * dataBlockSize(numDataStreams)

\* byte offset of word c*numDataStreams + s of sample k's amplifier region
AmplifierWordOffset(k, s, c) ==
    k * dataBlockSize(numDataStreams) + 8 + 4 + 6 * numDataStreams
        + 2 * (c * numDataStreams + s)

\* C2: for numDataStreams in 1..8, readDataBlock stores in
\* amplifier[s][c][sample] the little-endian word at position
\* c*numDataStreams + s of that sample's amplifier region.
C2_AmplifierDeinterleave ==
    (Decoded /\ AllHeadersValid /\ numDataStreams >= 1 /\ samplesPerDataBlock >= 1) =>
        /\ decoded.outcome = "returned"
        /\ \A k \in 0 .. samplesPerDataBlock - 1, s \in 0 .. numDataStreams - 1,
              c \in 0 .. num_channels - 1 :
               /\ <<s, c, k>> \in DOMAIN decoded.result.amplifier_data
               /\ decoded.result.amplifier_data[<<s, c, k>>]
                      = WordAt(buffer, AmplifierWordOffset(k, s, c))

\* C3: with 2 streams and 32 channels, decoding a buffer of blocks built from
\* known values returns those values in every field of every sample: the 32-bit
\* timestamp, the auxiliary, amplifier and ADC words, TTL in and TTL out.
C3_RoundTrip ==
    (Decoded /\ AllHeadersValid /\ numDataStreams = 2 /\ num_channels = 32
       /\ samplesPerDataBlock >= 1) =>
        /\ decoded.outcome = "returned"
        /\ \A k \in 0 .. samplesPerDataBlock - 1 :
               /\ decoded.result.time_stamp[k + 1] = <<KnownTimestamp(k)>>
               /\ \A s \in 0 .. 1, ch \in 0 .. 2 :
                      decoded.result.auxiliary_data[<<s, ch, k>>] = KnownAux(k, ch, s)
               /\ \A s \in 0 .. 1, c \in 0 .. 31 :
                      decoded.result.amplifier_data[<<s, c, k>>] = KnownAmp(k, s, c)
               /\ \A i \in 0 .. 7 :
                      decoded.result.board_adc_data[<<i, k>>] = KnownADC(k, i)
               /\ decoded.result.ttl_in[k + 1] = << <<KnownTTLIn(k)>> >>
               /\ decoded.result.ttl_out[k + 1] = << <<KnownTTLOut(k)>> >>

\* C6: when the first wrong header is that of sample k, decoding fails with a
\* frame-sync error that names k and holds the bytes read, no sample from k on
\* is decoded, and the samples 0..k-1 decoded before it reach the caller.
C6_FrameSyncError ==
    \A k \in 0 .. samplesPerDataBlock - 1 :
        (Decoded /\ FirstBadHeader(k)) =>
            /\ decoded.outcome = "SyntaxError"
            /\ decoded.message.header = BlockHeader(buffer, numDataStreams, k)
            /\ "index" \in DOMAIN decoded.message
            /\ decoded.message.index = k
            /\ decoded.sample = k
            /\ Len(decoded.result.time_stamp) = k
            /\ Len(decoded.result.ttl_in) = k

-----------------------------------------------------------------------------
(* AcquisitionController: collectDataFromPipeOut, one transport call per   *)
(* step.  Every call of the transport hands back an error code, which may  *)
(* report failure; a failed call has no effect on the wires or the device. *)
(* The code reads none of these codes.                                     *)

\* the transport with the calls of the capture so far
XemNow == [wireIn |-> wireIn, devWire |-> devWire, calls |-> calls]

\* a 32-bit count as two 16-bit limbs <<low, high>>; TLC's integers stop at
\* 2^31 - 1, Python's do not
Word32(n) == <<n % 65536, n \div 65536>>

\* Python's & on two 32-bit values
BitAnd32(a, b) == <<BitAnd(a[1], b[1]), BitAnd(a[2], b[2])>>

\* the shift left out: the value stays where the mask 0xffff0000 left it
NoShift(a) == a

\* Python's ">> 16" on a 32-bit value
Shr16(a) == <<a[2], 0>>

\* the part of a value that a 16-bit wire-in takes
Wire16(a) == a[1]

\* "maxTimeStep & 0x0000ffff"
maxTimeStepLsb(maxTimeStep) == BitAnd32(maxTimeStep, <<65535, 0>>)

\* "maxTimeStep & 0xffff0000"
maxTimeStepMsb(maxTimeStep) == BitAnd32(maxTimeStep, <<0, 65535>>)

\* the two values setMaxTimeStep hands to SetWireInValue, for 0x01 and 0x02
maxTimeStepWrites(maxTimeStep) ==
    <<maxTimeStepLsb(maxTimeStep), Shr16(maxTimeStepMsb(maxTimeStep))>>

\* setMaxTimeStep(maxTimeStep), the count as two 16-bit limbs
setMaxTimeStep(x, maxTimeStep) ==
    LET w == maxTimeStepWrites(maxTimeStep)
    IN  Returns(UpdateWireIns(
            SetWireInValue(SetWireInValue(x, 1, Wire16(w[1]), WireMask),
                           2, Wire16(w[2]), WireMask)))

\* sample counts handed to setMaxTimeStep: every pairing of these halves, from
\* 0 to 2^32 - 1
TimerHalves == {0, 1, 255, 4660, 32768, 65535}
TimeSteps == TimerHalves \X TimerHalves

SetMaxTimeStepCall ==
    /\ \E m \in TimeSteps : Did("setMaxTimeStep", <<m>>, setMaxTimeStep(Xem, m))
    /\ UNCHANGED <<hdrVars, decVars, capVars, fifoVars>>

InitTimer == CfgInit /\ HdrIdle /\ DecIdle /\ CapIdle /\ FifoIdle

NextTimer == SetMaxTimeStepCall

SpecTimer == InitTimer /\ [][NextTimer]_vars

\* C13: for every sample count from 0 to 2^32 - 1, setMaxTimeStep writes the
\* low half of the count to register 0x01 and the high half to register 0x02;
\* each half fits in 16 bits, low + high * 65536 is the count (the count's
\* limbs are the two halves), and one commit after the two writes latches
\* both together.
C13_TimerHalves ==
    lastOp.op = "setMaxTimeStep" =>
        LET count == lastOp.args[1]
            w     == maxTimeStepWrites(count)
        IN  /\ w[1][2] = 0 /\ w[1][1] \in 0 .. 65535
            /\ w[2][2] = 0 /\ w[2][1] \in 0 .. 65535
            /\ <<wireIn[1], wireIn[2]>> = count
            /\ <<devWire[1], devWire[2]>> = count
            /\ calls = <<Call("SetWireInValue", 1, count[1], WireMask),
                         Call("SetWireInValue", 2, count[2], WireMask),
                         Call("UpdateWireIns", 0, 0, 0)>>

\* the largest count, 2^32 - 1, set after a smaller one
C13_Witness ==
    /\ lastOp.op = "setMaxTimeStep"
    /\ lastOp.args[1] = <<65535, 65535>>
    /\ nOps >= 2
    /\ devWire[2] = 65535

\* a SetWireInValue call of the capture
WireWrite(ep, val, mask, next) ==
    \E ok \in BOOLEAN :
        LET x == SetWireInValue(XemNow, ep, val, mask)
        IN  /\ wireIn' = IF ok THEN x.wireIn ELSE wireIn
            /\ calls' = x.calls
            /\ transportFailed' = (transportFailed \/ ~ok)
            /\ pc' = next
            /\ UNCHANGED <<devWire, lastOp, nOps, length, numStreams, capBuffer, wireOut,
                           devRunning, returned, isRunning, hdrVars, decVars, fifoVars>>

\* an UpdateWireIns call of the capture
WireCommit(next) ==
    \E ok \in BOOLEAN :
        LET x == UpdateWireIns(XemNow)
        IN  /\ devWire' = IF ok THEN x.devWire ELSE devWire
            /\ calls' = x.calls
            /\ transportFailed' = (transportFailed \/ ~ok)
            /\ pc' = next
            /\ UNCHANGED <<wireIn, lastOp, nOps, length, numStreams, capBuffer, wireOut,
                           devRunning, returned, isRunning, hdrVars, decVars, fifoVars>>

\* capture lengths (samples) and stream counts handed to collectDataFromPipeOut
CaptureLengths == {0, 1, 100, 65537}
CaptureStreams == {1, 2}

\* collectDataFromPipeOut(length, numStreams) is called
CollectStart ==
    /\ pc = "idle"
    /\ returned = "nothing"
    /\ \E len \in CaptureLengths, ns \in CaptureStreams :
           /\ length' = len
           /\ numStreams' = ns
    /\ pc' = "timer_lsb"
    /\ UNCHANGED <<cfgVars, capBuffer, wireOut, devRunning, transportFailed, returned,
                   isRunning, hdrVars, decVars, fifoVars>>

\* setMaxTimeStep(length)
SetTimerLsb ==
    /\ pc = "timer_lsb"
    /\ WireWrite(1, Wire16(maxTimeStepWrites(Word32(length))[1]), WireMask, "timer_msb")

SetTimerMsb ==
    /\ pc = "timer_msb"
    /\ WireWrite(2, Wire16(maxTimeStepWrites(Word32(length))[2]), WireMask, "timer_commit")

CommitTimer ==
    /\ pc = "timer_commit"
    /\ WireCommit("alloc")

\* the buffer sized in 16-bit words instead of bytes
AllocateBufferInWords ==
    /\ pc = "alloc"
    /\ capBuffer' = [size |-> (dataBlockSize(numStreams) \div 2) * length, filled |-> FALSE]
    /\ pc' = "light_on"
    /\ UNCHANGED <<cfgVars, length, numStreams, wireOut, devRunning, transportFailed,
                   returned, isRunning, hdrVars, decVars, fifoVars>>

\* buffer = bytearray("\x00" * self.dataBlockSize(numStreams) * length)
AllocateBuffer ==
    /\ pc = "alloc"
    /\ capBuffer' = [size |-> dataBlockSize(numStreams) * length, filled |-> FALSE]
    /\ pc' = "light_on"
    /\ UNCHANGED <<cfgVars, length, numStreams, wireOut, devRunning, transportFailed,
                   returned, isRunning, hdrVars, decVars, fifoVars>>

\* setLight(255)
LightOn ==
    /\ pc = "light_on"
    /\ WireWrite(17, 255, WireMask, "light_on_commit")

LightOnCommit ==
    /\ pc = "light_on_commit"
    /\ WireCommit("trigger")

\* startRecording(): the device starts acquiring when the trigger reaches it
StartRecording ==
    /\ pc = "trigger"
    /\ \E ok \in BOOLEAN :
           /\ calls' = ActivateTriggerIn(XemNow, 65, 0).calls
           /\ devRunning' = (devRunning \/ ok)
           /\ transportFailed' = (transportFailed \/ ~ok)
    /\ pc' = "poll"
    /\ UNCHANGED <<wireIn, devWire, lastOp, nOps, length, numStreams, capBuffer, wireOut,
                   returned, isRunning, hdrVars, decVars, fifoVars>>

\* the status tested once, by an "if" in place of the "while"
PollRunningOnce ==
    /\ pc = "poll"
    /\ \E ok \in BOOLEAN :
           /\ wireOut' = IF ok THEN (IF devRunning THEN 1 ELSE 0) ELSE wireOut
           /\ transportFailed' = (transportFailed \/ ~ok)
    /\ isRunning' = wireOut'
    /\ pc' = "read_pipe"
    /\ UNCHANGED <<cfgVars, length, numStreams, capBuffer, devRunning, returned,
                   hdrVars, decVars, fifoVars>>

\* one test of "while self.isRunning()": UpdateWireOuts refreshes the host's
\* copy of wire-out 0x22 (a failed refresh leaves the copy as it was), and
\* GetWireOutValue(0x22) reads the copy
PollRunning ==
    /\ pc = "poll"
    /\ \E ok \in BOOLEAN :
           /\ wireOut' = IF ok THEN (IF devRunning THEN 1 ELSE 0) ELSE wireOut
           /\ transportFailed' = (transportFailed \/ ~ok)
    /\ isRunning' = wireOut'
    /\ pc' = IF isRunning' # 0 THEN "poll" ELSE "read_pipe"
    /\ UNCHANGED <<cfgVars, length, numStreams, capBuffer, devRunning, returned,
                   hdrVars, decVars, fifoVars>>

\* the device reaches its maximum time step and stops
DeviceFinishes ==
    /\ devRunning
    /\ devRunning' = FALSE
    /\ UNCHANGED <<cfgVars, pc, length, numStreams, capBuffer, wireOut, transportFailed,
                   returned, isRunning, hdrVars, decVars, fifoVars>>

\* xem.ReadFromPipeOut(0xa0, buffer): a read that fails leaves the buffer's zeros
ReadPipe ==
    /\ pc = "read_pipe"
    /\ \E ok \in BOOLEAN :
           /\ capBuffer' = [capBuffer EXCEPT !.filled = ok]
           /\ transportFailed' = (transportFailed \/ ~ok)
    /\ calls' = Append(calls, Call("ReadFromPipeOut", 160, capBuffer.size, 0))
    /\ pc' = "light_off"
    /\ UNCHANGED <<wireIn, devWire, lastOp, nOps, length, numStreams, wireOut, devRunning,
                   returned, isRunning, hdrVars, decVars, fifoVars>>

\* setLight(0)
LightOff ==
    /\ pc = "light_off"
    /\ WireWrite(17, 0, WireMask, "light_off_commit")

LightOffCommit ==
    /\ pc = "light_off_commit"
    /\ WireCommit("return")

\* "return buffer": the only way out of collectDataFromPipeOut
ReturnBuffer ==
    /\ pc = "return"
    /\ returned' = "buffer"
    /\ pc' = "idle"
    /\ UNCHANGED <<cfgVars, length, numStreams, capBuffer, wireOut, devRunning,
                   transportFailed, isRunning, hdrVars, decVars, fifoVars>>

InitCapture == CfgInit /\ HdrIdle /\ DecIdle /\ CapIdle /\ FifoIdle

NextCapture ==
    \/ CollectStart
    \/ SetTimerLsb
    \/ SetTimerMsb
    \/ CommitTimer
    \/ AllocateBuffer
    \/ LightOn
    \/ LightOnCommit
    \/ StartRecording
    \/ PollRunning
    \/ DeviceFinishes
    \/ ReadPipe
    \/ LightOff
    \/ LightOffCommit
    \/ ReturnBuffer

SpecCapture == InitCapture /\ [][NextCapture]_vars

\* C10: when a transport call of a capture has reported failure, the capture
\* ends with the failure propagated: collectDataFromPipeOut does not return
\* a data buffer.
C10_FailurePropagated ==
    (pc = "idle" /\ returned # "nothing" /\ transportFailed) => returned # "buffer"

\* the stage of a capture: IDLE until the timer is set, ARMED until the trigger
\* is fired, RUNNING while the status is polled, DRAINING from the pipe read
\* to the return
CapturePhase ==
    CASE pc \in {"idle", "timer_lsb", "timer_msb", "timer_commit"} -> "IDLE"
      [] pc \in {"alloc", "light_on", "light_on_commit", "trigger"} -> "ARMED"
      [] pc = "poll" -> "RUNNING"
      [] OTHER -> "DRAINING"

\* positions in the capture's calls of the calls c on endpoint ep
CallsAt(c, ep) == {i \in 1 .. Len(calls) : calls[i].call = c /\ calls[i].ep = ep}

\* the capture's calls start with the two timer writes and their commit
TimerSetFirst ==
    /\ Len(calls) >= 3
    /\ calls[1] = Call("SetWireInValue", 1, length % 65536, WireMask)
    /\ calls[2] = Call("SetWireInValue", 2, length \div 65536, WireMask)
    /\ calls[3] = Call("UpdateWireIns", 0, 0, 0)

C11_Order ==
    LET triggers == CallsAt("ActivateTriggerIn", 65)
        reads    == CallsAt("ReadFromPipeOut", 160)
        done     == pc = "idle" /\ returned = "buffer"
    IN  /\ (CapturePhase # "IDLE" \/ done) => TimerSetFirst
        /\ \A t \in triggers : TimerSetFirst /\ t > 3
        /\ Cardinality(triggers) =
               IF CapturePhase \in {"RUNNING", "DRAINING"} \/ done THEN 1 ELSE 0
        /\ Cardinality(reads) =
               IF pc \in {"light_off", "light_off_commit", "return"} \/ done THEN 1 ELSE 0
        /\ pc = "read_pipe" => isRunning = 0
        /\ \A r \in reads :
               /\ isRunning = 0
               /\ \E t \in triggers : t < r
               /\ calls[r].val = dataBlockSize(numStreams) * length

C11_PhaseStep ==
    \/ CapturePhase' = CapturePhase
    \/ <<CapturePhase, CapturePhase'>> \in
           {<<"IDLE", "ARMED">>, <<"ARMED", "RUNNING">>, <<"RUNNING", "DRAINING">>,
            <<"DRAINING", "IDLE">>}

\* C11: every capture passes IDLE, ARMED, RUNNING, DRAINING, IDLE in this
\* order: registers 0x01 and 0x02 are written and committed before trigger
\* 0x41 is fired, the trigger is fired exactly once, pipe 0xA0 is read exactly
\* once and only after a read of register 0x22 returned not-running, and the
\* buffer handed to the pipe read has dataBlockSize(numStreams) * length bytes.
C11_CaptureSequence == [](C11_Order) /\ [][C11_PhaseStep]_vars

\* a capture of 100 samples has run to its return with the pipe read into the buffer
C11_Witness ==
    /\ pc = "idle"
    /\ returned = "buffer"
    /\ length = 100
    /\ capBuffer = [size |-> dataBlockSize(numStreams) * 100, filled |-> TRUE]
    /\ isRunning = 0
    /\ ~transportFailed

\* the statements of collectDataFromPipeOut: once called, the interpreter
\* runs the next one
CaptureStep ==
    \/ SetTimerLsb
    \/ SetTimerMsb
    \/ CommitTimer
    \/ AllocateBuffer
    \/ LightOn
    \/ LightOnCommit
    \/ StartRecording
    \/ PollRunning
    \/ ReadPipe
    \/ LightOff
    \/ LightOffCommit
    \/ ReturnBuffer

\* a test of the loop to which the transport reports not-running
PollSeesStopped == PollRunning /\ isRunning' = 0

\* the capture under the assumptions that the program keeps running, that the
\* device reaches its maximum time step, and that the stopped device's status
\* gets through to the host
SpecCaptureFair ==
    /\ InitCapture
    /\ [][NextCapture]_vars
    /\ WF_vars(CaptureStep)
    /\ WF_vars(DeviceFinishes)
    /\ WF_vars(PollSeesStopped)

C12_LoopExit ==
    pc = "poll" => (pc' = "poll" \/ (pc' = "read_pipe" /\ isRunning' = 0))

\* C12: collectDataFromPipeOut terminates exactly when the device reports
\* not-running on register 0x22: when the device clears its running status
\* and the host gets to read it, a capture that was called reads the pipe and
\* returns; the poll loop is left only by a read of not-running, there is no
\* iteration bound and no timeout, and no pipe read before.
C12_Termination ==
    /\ (pc = "timer_lsb") ~>
           (pc = "idle" /\ returned = "buffer" /\ CallsAt("ReadFromPipeOut", 160) # {})
    /\ [][C12_LoopExit]_vars
    /\ [](CallsAt("ReadFromPipeOut", 160) = {} \/ isRunning = 0)

\* the device was triggered, has stopped, and the loop has just read
\* not-running from it
C12_Witness ==
    /\ pc = "read_pipe"
    /\ isRunning = 0
    /\ ~devRunning
    /\ CallsAt("ActivateTriggerIn", 65) # {}
    /\ ~transportFailed

\* C19: for a well-formed buffer of samplesPerDataBlock blocks (every header
\* valid), readDataBlock decodes all samplesPerDataBlock samples without an
\* out-of-range store, for every sample count a capture can have, counts
\* above 100 included: the auxiliary and ADC result storage has room for
\* every sample index in 0 .. samplesPerDataBlock - 1.
C19_RoomForEverySample ==
    (Decoded /\ AllHeadersValid) =>
        /\ decoded.outcome = "returned"
        /\ decoded.sample = samplesPerDataBlock
        /\ \A k \in 0 .. samplesPerDataBlock - 1 : k < ResultStorage

-----------------------------------------------------------------------------
(* DeviceConfigurator: cable delay.                                        *)

\* the dictionary "shift" of setCableDelay
shift == [port \in {"PortA", "PortB", "PortC", "PortD"} |->
             CASE port = "PortA" -> 0
               [] port = "PortB" -> 4
               [] port = "PortC" -> 8
               [] port = "PortD" -> 12]

Max(a, b) == IF a > b THEN a ELSE b

\* each delay written over the whole wire instead of under its port's mask
RECURSIVE setCableDelayUnmasked(_, _)
setCableDelayUnmasked(x, items) ==
    IF items = <<>> THEN Returns(x)
    ELSE LET port  == Head(items)[1]
             delay == Max(Min(15, Head(items)[2]), 0)
         IN  IF port \notin DOMAIN shift
             THEN Raises(x, "KeyError")
             ELSE setCableDelayUnmasked(
                      UpdateWireIns(SetWireInValue(x, 4, Shl(delay, shift[port]), WireMask)),
                      Tail(items))

\* setCableDelay over delaydict.items() in the order the dictionary yields them:
\* each item is clamped, written under its port's mask and committed; a port
\* that "shift" does not hold raises KeyError when its turn comes
RECURSIVE setCableDelay(_, _)
setCableDelay(x, items) ==
    IF items = <<>> THEN Returns(x)
    ELSE LET port  == Head(items)[1]
             delay == Max(Min(15, Head(items)[2]), 0)
         IN  IF port \notin DOMAIN shift
             THEN Raises(x, "KeyError")
             ELSE setCableDelay(
                      UpdateWireIns(
                          SetWireInValue(x, 4, Shl(delay, shift[port]), Shl(15, shift[port]))),
                      Tail(items))

\* port names and delays handed to setCableDelay; "PortE" is no port of the board
CablePorts == {"PortA", "PortB", "PortC", "PortD", "PortE"}
CableDelays == {-2, 9, 22}

\* the delays of a dictionary of two ports
CableDelayPairs == {<<9, 22>>, <<-2, 9>>, <<22, -2>>}

\* dictionaries of up to two ports, as their items in iteration order
CableDicts ==
    {<<>>}
      \cup {<< <<p, d>> >> : p \in CablePorts, d \in CableDelays}
      \cup {<< <<p, de[1]>>, <<q, de[2]>> >> :
                p \in CablePorts, q \in CablePorts, de \in CableDelayPairs}

SetCableDelayCall ==
    /\ \E items \in CableDicts :
           /\ Len(items) = 2 => items[1][1] # items[2][1]
           /\ Did("setCableDelay", <<items>>, setCableDelay(Xem, items))
    /\ UNCHANGED <<hdrVars, decVars, capVars, fifoVars>>

InitCable == CfgInit /\ HdrIdle /\ DecIdle /\ CapIdle /\ FifoIdle

NextCable == SetCableDelayCall

SpecCable == InitCable /\ [][NextCable]_vars

\* a cable-delay mapping that names a port outside PortA..PortD writes nothing
CableBadPortWritesNothing ==
    (lastOp.op = "setCableDelay"
       /\ \E i \in DOMAIN lastOp.args[1] : lastOp.args[1][i][1] \notin DOMAIN shift) =>
        (lastOp.exc # "none" /\ calls = <<>>)

\* the 4-bit delay field of a port in register 0x04
CableField(w, port) == (w[4] \div Pow2(shift[port])) % 16

\* the ports a mapping names
PortsNamed(items) == {items[i][1] : i \in DOMAIN items}

C14_Fields ==
    (lastOp.op = "setCableDelay" /\ lastOp.exc = "none") =>
        \A i \in DOMAIN lastOp.args[1] :
            LET port  == lastOp.args[1][i][1]
                delay == lastOp.args[1][i][2]
                want  == IF delay < 0 THEN 0 ELSE IF delay > 15 THEN 15 ELSE delay
            IN  /\ CableField(wireIn, port) = want
                /\ CableField(devWire, port) = want

C14_Frame ==
    /\ \A port \in DOMAIN shift :
           CableField(wireIn', port) # CableField(wireIn, port) =>
               (lastOp'.op = "setCableDelay" /\ port \in PortsNamed(lastOp'.args[1]))
    /\ \A ep \in WireInAddrs \ {4} : wireIn'[ep] = wireIn[ep]

\* C14: after setCableDelay(portDelays) has returned, for every port named in
\* the mapping the 4-bit field of register 0x04 at the port's offset (PortA 0,
\* PortB 4, PortC 8, PortD 12) holds min(15, max(0, delay)), and the field of
\* every port not named is unchanged; this holds after any sequence of calls.
C14_CableFields == [](C14_Fields) /\ [][C14_Frame]_vars

\* PortC was set to 9 by an earlier call and keeps it while a later call
\* clamps PortA's 22 to 15
C14_Witness ==
    /\ lastOp = [op |-> "setCableDelay", args |-> << << <<"PortA", 22>> >> >>, exc |-> "none"]
    /\ nOps >= 2
    /\ wireIn[4] = 9 * 256 + 15
    /\ devWire[4] = wireIn[4]

-----------------------------------------------------------------------------
(* DeviceConfigurator: continuous-run mode and the two resets; AcquisitionController's
   LED helper, which resetBuffer calls.                                    *)

\* the commit left out
setContinuousRunModeUncommitted(x, continuousMode) ==
    Returns(SetWireInValue(x, 0, IF continuousMode THEN 2 ELSE 0, 2))

setContinuousRunMode(x, continuousMode) ==
    Returns(UpdateWireIns(SetWireInValue(x, 0, IF continuousMode THEN 2 ELSE 0, 2)))

\* setLight(i): the transport after it
setLight(x, i) == UpdateWireIns(SetWireInValue(x, 17, i, WireMask))

\* LightPulse(arr) for a list arr: setLight for each element ("i += interval"
\* changes a local only), then setLight(0)
RECURSIVE LightPulse(_, _)
LightPulse(x, arr) ==
    IF arr = <<>> THEN setLight(x, 0)
    ELSE LightPulse(setLight(x, Head(arr)), Tail(arr))

resetBuffer(x) ==
    Returns(LightPulse(
        UpdateWireIns(SetWireInValue(
            UpdateWireIns(SetWireInValue(x, 16, 255, 1)), 16, 0, 1)),
        <<255, 0, 255>>))

\* the reset bit written over the whole wire instead of under the mask 0x01
resetBoardUnmasked(x) ==
    Returns(UpdateWireIns(SetWireInValue(
        UpdateWireIns(SetWireInValue(x, 0, 1, WireMask)), 0, 0, WireMask)))

resetBoard(x) ==
    Returns(UpdateWireIns(SetWireInValue(
        UpdateWireIns(SetWireInValue(x, 0, 1, 1)), 0, 0, 1)))

\* A session of configuration calls over all eight operations, each with a few
\* arguments.
ConfigEnable ==
    /\ \E s \in {0, 7} : Did("enableDataStream", <<s>>, enableDataStream(Xem, s))
    /\ UNCHANGED <<hdrVars, decVars, capVars, fifoVars>>

ConfigSource ==
    /\ \E a \in {<<1, 3>>, <<5, 7>>} :
           Did("setDataSource", a, setDataSource(Xem, a[1], a[2]))
    /\ UNCHANGED <<hdrVars, decVars, capVars, fifoVars>>

ConfigRate ==
    /\ \E rate \in {"30000", "2400"} :
           Did("setSampleFrequency", <<rate>>, setSampleFrequency(Xem, rate))
    /\ UNCHANGED <<hdrVars, decVars, capVars, fifoVars>>

ConfigCable ==
    /\ \E items \in {<< <<"PortA", 9>> >>, << <<"PortB", 22>>, <<"PortE", 9>> >>} :
           Did("setCableDelay", <<items>>, setCableDelay(Xem, items))
    /\ UNCHANGED <<hdrVars, decVars, capVars, fifoVars>>

ConfigRunMode ==
    /\ \E mode \in BOOLEAN :
           Did("setContinuousRunMode", <<mode>>, setContinuousRunMode(Xem, mode))
    /\ UNCHANGED <<hdrVars, decVars, capVars, fifoVars>>

ConfigTimer ==
    /\ \E m \in {<<4660, 1>>, <<65535, 65535>>} :
           Did("setMaxTimeStep", <<m>>, setMaxTimeStep(Xem, m))
    /\ UNCHANGED <<hdrVars, decVars, capVars, fifoVars>>

ConfigResetBuffer ==
    /\ Did("resetBuffer", <<>>, resetBuffer(Xem))
    /\ UNCHANGED <<hdrVars, decVars, capVars, fifoVars>>

ConfigResetBoard ==
    /\ Did("resetBoard", <<>>, resetBoard(Xem))
    /\ UNCHANGED <<hdrVars, decVars, capVars, fifoVars>>

InitConfig == CfgInit /\ HdrIdle /\ DecIdle /\ CapIdle /\ FifoIdle

NextConfig ==
    \/ ConfigEnable
    \/ ConfigSource
    \/ ConfigRate
    \/ ConfigCable
    \/ ConfigRunMode
    \/ ConfigTimer
    \/ ConfigResetBuffer
    \/ ConfigResetBoard

SpecConfig == InitConfig /\ [][NextConfig]_vars

\* C15: every configuration operation (enableDataStream, setDataSource,
\* setSampleFrequency, setCableDelay, setContinuousRunMode, setMaxTimeStep,
\* resetBuffer, resetBoard) follows each of its register writes with a commit
\* before it returns and before it pulses any trigger, so that when it
\* returns the values latched by the device are the values last written by
\* the host.
C15_WriteThenCommit ==
    lastOp.op # "none" =>
        /\ \A i \in DOMAIN calls :
               calls[i].call = "SetWireInValue" =>
                   \E j \in (i + 1) .. Len(calls) :
                       /\ calls[j].call = "UpdateWireIns"
                       /\ \A k \in (i + 1) .. (j - 1) : calls[k].call # "ActivateTriggerIn"
        /\ devWire = wireIn

\* a sample rate set after two other operations: its divider word is latched
\* and its trigger pulsed
C15_Witness ==
    /\ lastOp = [op |-> "setSampleFrequency", args |-> <<"30000">>, exc |-> "none"]
    /\ nOps = 3
    /\ devWire[3] = 256 * 42 + 25
    /\ calls[Len(calls)].call = "ActivateTriggerIn"

\* the wire-in values the device latches at each commit of a run of transport
\* calls, the host's values being w before the run
RECURSIVE Latched(_, _)
Latched(w, log) ==
    IF log = <<>> THEN <<>>
    ELSE LET c == Head(log)
         IN  CASE c.call = "SetWireInValue" ->
                    Latched([w EXCEPT ![c.ep] = (@ - BitAnd(@, c.mask)) + BitAnd(c.val, c.mask)],
                            Tail(log))
               [] c.call = "UpdateWireIns" -> <<w>> \o Latched(w, Tail(log))
               [] OTHER -> Latched(w, Tail(log))

\* the names of the first four calls of the operation
C16_Handshake == <<"SetWireInValue", "UpdateWireIns", "SetWireInValue", "UpdateWireIns">>

C16_Step ==
    \A r \in {<<"resetBuffer", 16>>, <<"resetBoard", 0>>} :
        (nOps' = nOps + 1 /\ lastOp'.op = r[1]) =>
            LET ep    == r[2]
                rest  == wireIn[ep] - (wireIn[ep] % 2)
                seen  == Latched(wireIn, calls')
            IN  /\ Len(calls') >= 4
                /\ [i \in 1 .. 4 |-> calls'[i].call] = C16_Handshake
                /\ calls'[1].ep = ep /\ calls'[3].ep = ep
                /\ Len(seen) >= 2
                /\ seen[1][ep] = rest + 1
                /\ \A k \in 2 .. Len(seen) : seen[k][ep] = rest
                /\ wireIn'[ep] = rest
                /\ devWire'[ep] = rest

\* C16: resetBuffer (register 0x10 bit 0) and resetBoard (register 0x00 bit 0)
\* each assert the bit, commit, deassert it, commit, in this order, so the
\* device latches the reset bit as 1 and then as 0; when the operation
\* returns the reset bit is 0 and every other bit of the register is as
\* before (the continuous-run bit 1 of register 0x00 survives resetBoard).
C16_ResetPulse == [][C16_Step]_vars

\* resetBoard has returned with the continuous-run bit, set before it, still set
C16_Witness ==
    /\ lastOp.op = "resetBoard"
    /\ wireIn[0] = 2
    /\ devWire[0] = 2

-----------------------------------------------------------------------------
(* SessionInit: init_experiment(settings), which the constructor calls once. *)

\* "for i in range(settings['num_data_streams'] + 1)", from its pass i on: the
\* transport after the loop
RECURSIVE streamLoop(_, _, _)
streamLoop(x, i, num_data_streams) ==
    IF i >= num_data_streams + 1 THEN x
    ELSE streamLoop(setDataSource(enableDataStream(x, i).x, i, i).x, i + 1, num_data_streams)

\* the cable delays set before the sample rate
init_experimentCableFirst(x, settings) ==
    LET mode  == setContinuousRunMode(
                     streamLoop(x, 0, settings.num_data_streams), settings.continuous_capture)
        cable == setCableDelay(mode.x, settings.cable_delay)
    IN  IF cable.exc # "none" THEN cable
        ELSE setSampleFrequency(cable.x, settings.sample_rate)

\* an exception of setSampleFrequency ends init_experiment before setCableDelay
init_experiment(x, settings) ==
    LET mode == setContinuousRunMode(
                    streamLoop(x, 0, settings.num_data_streams), settings.continuous_capture)
        rate == setSampleFrequency(mode.x, settings.sample_rate)
    IN  IF rate.exc # "none" THEN rate
        ELSE setCableDelay(rate.x, settings.cable_delay)

\* the settings dictionaries a session is constructed with
SessionSettings ==
    [num_data_streams   : 0 .. MaxStreamIndex,
     continuous_capture : BOOLEAN,
     sample_rate        : {"30000", "2500", "2400"},
     cable_delay        : {<<>>, << <<"PortA", 5>> >>, << <<"PortB", 22>>, <<"PortD", -2>> >>,
                           << <<"PortE", 9>> >>}]

\* __init__ calls init_experiment once, on the registers as the device resets them
InitExperimentCall ==
    /\ lastOp.op = "none"
    /\ \E settings \in SessionSettings :
           Did("init_experiment", <<settings>>, init_experiment(Xem, settings))
    /\ UNCHANGED <<hdrVars, decVars, capVars, fifoVars>>

InitSession == CfgInit /\ HdrIdle /\ DecIdle /\ CapIdle /\ FifoIdle

NextSession == InitExperimentCall

SpecSession == InitSession /\ [][NextSession]_vars

\* C17: in init_experiment the sample-frequency write and its PLL-load
\* trigger pulse come before any cable-delay write to register 0x04; no
\* cable-delay write precedes the PLL load.
C17_RateBeforeCable ==
    lastOp.op = "init_experiment" =>
        \A i \in DOMAIN calls :
            (calls[i].call = "SetWireInValue" /\ calls[i].ep = 4) =>
                \E j \in 1 .. (i - 1), k \in 1 .. (i - 1) :
                    /\ j < k
                    /\ calls[j].call = "SetWireInValue" /\ calls[j].ep = 3
                    /\ calls[k].call = "ActivateTriggerIn" /\ calls[k].ep = 64

\* a session set up at 30 kS/s whose two cable delays were written, clamped
C17_Witness ==
    /\ lastOp.op = "init_experiment"
    /\ lastOp.exc = "none"
    /\ devWire[3] = 256 * 42 + 25
    /\ devWire[4] = 15 * 16
    /\ Cardinality(CallsAt("SetWireInValue", 4)) = 2

\* C18: from all-zero registers, after init_experiment with num_data_streams
\* = n, for n from 0 to 8, register 0x14 has exactly the bits 0..n-1 set,
\* each stream i < n is routed to source i in registers 0x12/0x13, and no
\* data-source write (a write under a 4-bit mask, outside the cable-delay
\* register) lands on a register other than 0x12 or 0x13.
C18_StreamsEnabled ==
    lastOp.op = "init_experiment" =>
        LET n == lastOp.args[1].num_data_streams
        IN  /\ wireIn[20] = Pow2(n) - 1
            /\ \A i \in 0 .. (n - 1) : RoutingField(wireIn, i) = i
            /\ \A c \in DOMAIN calls :
                   (calls[c].call = "SetWireInValue" /\ calls[c].ep # 4
                      /\ calls[c].mask \in {15, 240, 3840, 61440}) =>
                       calls[c].ep \in {18, 19}

-----------------------------------------------------------------------------
(* AcquisitionController: numWordsInFifo.                                  *)

\* "return (msb << 16 + lsb)": + binds tighter than <<, so msb is shifted by
\* 16 + lsb bits
numWordsInFifo(msb, lsb) == Shl(msb, 16 + lsb)

\* values of the wire-outs 0x21 and 0x20; the results stay within TLC's integers
FifoMsbValues == 0 .. 3
FifoLsbValues == 0 .. 12

\* UpdateWireOuts brings the device's wire-outs to the host, and the two reads
\* of GetWireOutValue give msb and lsb
NumWordsInFifoCall ==
    /\ numWords = -1
    /\ numWords' = numWordsInFifo(fifoMsb, fifoLsb)
    /\ UNCHANGED <<fifoMsb, fifoLsb, cfgVars, hdrVars, decVars, capVars>>

InitFifo ==
    /\ CfgInit
    /\ HdrIdle
    /\ DecIdle
    /\ CapIdle
    /\ fifoMsb \in FifoMsbValues
    /\ fifoLsb \in FifoLsbValues
    /\ numWords = -1

NextFifo == NumWordsInFifoCall

SpecFifo == InitFifo /\ [][NextFifo]_vars

\* C20: numWordsInFifo returns the FIFO word count msb * 65536 + lsb, msb the
\* value of wire-out 0x21 and lsb the value of wire-out 0x20, read after one
\* refresh of the wire-outs.
C20_WordCount ==
    numWords # -1 => numWords = fifoMsb * 65536 + fifoLsb

=============================================================================
